---- MODULE Spec2Model ----
(***************************************************************************)
(* Settlement Ledger Engine of the admin back-office: the handler          *)
(* handleRecordSettlement of SettlementManagementPage and the four stores  *)
(* it writes (settlements, credit_ledger, profiles.credit_balance,         *)
(* nila_transfers).  Every operator session (one mounted page) holds its   *)
(* own copy of the user list; the handler runs as a sequence of awaited    *)
(* store requests, so calls of different sessions interleave between the   *)
(* awaits.                                                                 *)
(***************************************************************************)
EXTENDS Integers, Sequences, FiniteSets, TLC

\* ------------------------------------------------------------------ bounds
\* Total number of handleRecordSettlement calls over all sessions.
MaxCalls == 2

\* ------------------------------------------------------------- input sets
Users == {"u1", "u2"}
Sessions == {"s1", "s2"}
\* formData.userId starts as '' (no user selected).
NoUser == ""
\* credit_balance of each profile before any settlement is recorded.
InitialBalance == [u \in Users |-> IF u = "u1" THEN 500 ELSE 200]
\* Values of formData.creditsUsed a call is made with (0 is the form default).
CreditsInputs == {0, 200, 300}

\* ------------------------------------------------------------------ state
VARIABLES
  balance,        \* profiles.credit_balance, per user (Balance Store)
  settlements,    \* rows of the settlements table, in insertion order
  ledger,         \* rows of credit_ledger, in insertion order
  transfers,      \* rows of nila_transfers, in insertion order
  users,          \* per session: the page's loaded user list (credit_balance per user)
  formData,       \* per session: userId and creditsUsed the running call was made with
  selectedUser,   \* per session: users.find(...) of the running call
  settlement,     \* per session: id of the row returned by the settlements insert (0: none)
  saving,         \* per session: the saving flag
  alertMsg,       \* per session: what the last call reported to the operator
  pc,             \* per session: the await the running call is suspended at
  calls,          \* number of calls started so far
  \* history variables (not program state)
  failedStep,     \* per session: the store write of the last call that failed
  collidedWith,   \* per session: id of the row whose settlementId the last call generated
                  \* again (0: the generated settlementId was a new one)
  equalsStore,    \* per session: creditsUsed of the call equalled the Balance Store value of
                  \* its user when the call started
  alone,          \* per session: when the call started no other call was in flight and the
                  \* session's loaded credit_balance of the user was the stored one, and no
                  \* other session has started a call since
  issued,         \* per session: the store writes the call has issued so far, in order
  exceedsStore,   \* per session: creditsUsed of the call exceeded the Balance Store value of
                  \* its user when the call started
  racedWith,      \* per session: the sessions whose call for the same user had validated and
                  \* not yet written the balance when this call did (or the converse), the
                  \* two together asking for more than the balance then stored
  balanceBefore   \* per ledger row: Balance Store value of its user just before the row was written

\* fetchNilaRate: whether VITE_NILA_RATE_ENDPOINT is set, the answers the backend
\* proxy and CoinGecko give, the position of the call and what it gave back.
VARIABLES backendEndpoint, proxyRes, geckoRes, ratePc, rateResult

pageVars == << balance, settlements, ledger, transfers, users, formData, selectedUser,
           settlement, saving, alertMsg, pc, calls,
           failedStep, collidedWith, exceedsStore, racedWith, balanceBefore,
           equalsStore, alone, issued >>

rateVars == << backendEndpoint, proxyRes, geckoRes, ratePc, rateResult >>

\* The rate endpoints (Express router and Deno function): which one is asked,
\* the request method, the answer of CoinGecko, the position of the handler and
\* the response it sent.
VARIABLES endpoint, reqMethod, upstreamRes, endpointPc, response

endpointVars == << endpoint, reqMethod, upstreamRes, endpointPc, response >>

\* The payment providers page: the payment_providers table and the position of
\* a running setAsDefaultTest.
VARIABLES providers, providerPc

providerVars == << providers, providerPc >>

\* uploadCreditPackImage: its inputs (session, file, answers of the storage),
\* its position, its result and the storage uploads it issued.
VARIABLES uploadInput, uploadPc, uploadResult, uploadsIssued

uploadVars == << uploadInput, uploadPc, uploadResult, uploadsIssued >>

\* Everything outside the settlement page.
offPageVars == << rateVars, endpointVars, providerVars, uploadVars >>

vars == << pageVars, rateVars, endpointVars, providerVars, uploadVars >>

stores == << balance, settlements, ledger, transfers >>

NotFound == [found |-> FALSE, credit_balance |-> 0]
NoForm == [userId |-> NoUser, creditsUsed |-> 0]

\* ---------------------------------------------------------------- helpers
\* Mutation of FindUser: an id that matches no user gives the first user of the
\* list.
FindUserOrFirst(list, userId) ==
  IF userId \in DOMAIN list
    THEN [found |-> TRUE, credit_balance |-> list[userId]]
    ELSE [found |-> TRUE, credit_balance |-> list["u1"]]

\* users.find(u => u.id === formData.userId)
FindUser(list, userId) ==
  IF userId \in DOMAIN list
    THEN [found |-> TRUE, credit_balance |-> list[userId]]
    ELSE NotFound

\* Mutation of Insufficient: a request for the whole balance is refused too.
InsufficientOrEqual(creditsUsed, credit_balance) == creditsUsed >= credit_balance

\* Mutation of Insufficient: the comparison tests the wrong direction.
InsufficientReversed(creditsUsed, credit_balance) == creditsUsed < credit_balance

\* formData.creditsUsed > selectedUser.credit_balance
Insufficient(creditsUsed, credit_balance) == creditsUsed > credit_balance

\* Mutation of BalanceAfter: the credits are added instead of deducted.
BalanceAfterAdded(credit_balance, creditsUsed) == credit_balance + creditsUsed

\* selectedUser.credit_balance - formData.creditsUsed
BalanceAfter(credit_balance, creditsUsed) == credit_balance - creditsUsed

\* generateSettlementId(): 'STL_' + Date.now() + '_' + six random base-36 digits.
\* The value either equals the settlementId of a row already stored or differs
\* from all of them; the values are numbered in the order they first appear.
GenerateSettlementId == 1..(Len(settlements) + 1)

\* The first row holding settlementId id.
FirstWith(id) ==
  CHOOSE i \in 1..Len(settlements) :
    /\ settlements[i].settlementId = id
    /\ \A j \in 1..(i - 1) : settlements[j].settlementId # id

\* Mutation of SettlementIdTaken: the table has no unique constraint.
SettlementIdNeverTaken(id) == FALSE

\* The settlements table holds settlementId as a unique column.
SettlementIdTaken(id) ==
  \E i \in 1..Len(settlements) : settlements[i].settlementId = id

\* The calls of other sessions that have validated and not yet written the balance
\* of the user of the call of s, and ask together with it for more than is stored.
ValidatedNotWritten(s) ==
  { t \in Sessions \ {s} :
      /\ pc[t] \in {"ledger", "balance"}
      /\ formData[t].userId = formData[s].userId
      /\ formData[t].creditsUsed + formData[s].creditsUsed > balance[formData[s].userId] }

NoCallInFlight == \A s \in Sessions : pc[s] = "idle"

\* Mutation of Return: setSaving(false) is the last statement of the try block
\* and not a finally block, so it is skipped when a store write throws.
ReturnWithoutFinally(s, msg, step) ==
  /\ saving' = [saving EXCEPT ![s] = step # "none"]
  /\ formData' = [formData EXCEPT ![s] = NoForm]
  /\ selectedUser' = [selectedUser EXCEPT ![s] = NotFound]
  /\ alertMsg' = [alertMsg EXCEPT ![s] = msg]
  /\ failedStep' = [failedStep EXCEPT ![s] = step]
  /\ pc' = [pc EXCEPT ![s] = "idle"]

\* Mutation of Return: the error of the ledger insert, the balance update or the
\* transfer insert is not thrown, and the handler goes on to its next request.
ReturnSwallowed(s, msg, step) ==
  IF step \in {"ledger", "balance", "transfer"}
    THEN /\ failedStep' = [failedStep EXCEPT ![s] = step]
         /\ pc' = [pc EXCEPT ![s] = CASE step = "ledger" -> "balance"
                                       [] step = "balance" -> "transfer"
                                       [] OTHER -> "refresh"]
         /\ UNCHANGED << saving, formData, selectedUser, alertMsg >>
    ELSE /\ saving' = [saving EXCEPT ![s] = FALSE]
         /\ formData' = [formData EXCEPT ![s] = NoForm]
         /\ selectedUser' = [selectedUser EXCEPT ![s] = NotFound]
         /\ alertMsg' = [alertMsg EXCEPT ![s] = msg]
         /\ failedStep' = [failedStep EXCEPT ![s] = step]
         /\ pc' = [pc EXCEPT ![s] = "idle"]

\* The call of session s returns: the finally block clears the saving flag, and
\* the handler's closure (formData, selectedUser) is gone.
Return(s, msg, step) ==
  /\ saving' = [saving EXCEPT ![s] = FALSE]
  /\ formData' = [formData EXCEPT ![s] = NoForm]
  /\ selectedUser' = [selectedUser EXCEPT ![s] = NotFound]
  /\ alertMsg' = [alertMsg EXCEPT ![s] = msg]
  /\ failedStep' = [failedStep EXCEPT ![s] = step]
  /\ pc' = [pc EXCEPT ![s] = "idle"]

\* Mutation of Continue: the ledger insert is left out of the sequence.
ContinueSkippingLedger(s, next) ==
  /\ pc' = [pc EXCEPT ![s] = IF next = "ledger" THEN "balance" ELSE next]
  /\ UNCHANGED << saving, alertMsg, failedStep, formData, selectedUser >>

\* The call of session s goes on to its next await.
Continue(s, next) ==
  /\ pc' = [pc EXCEPT ![s] = next]
  /\ UNCHANGED << saving, alertMsg, failedStep, formData, selectedUser >>

\* ------------------------------------------------------------------- Init
\* ------------------------------------------------------------ fetchNilaRate
\* Rates are counted in units of 10^-5 USD: FALLBACK_RATE = 0.01234.
FALLBACK_RATE == 1234

\* The numbers a response body may carry as the rate.
RateValues == {-1, 0, 2000, 3000}

\* The value of json?.nila of a parsed body: undefined, a string, a number, an
\* object with a numeric usd, an object without one.
NilaValues ==
  {[t |-> "undefined", v |-> 0], [t |-> "string", v |-> 0], [t |-> "object", v |-> 0]}
    \cup {[t |-> "number", v |-> n] : n \in RateValues}
    \cup {[t |-> "usd", v |-> n] : n \in RateValues}

NoResponse == [kind |-> "none", nila |-> [t |-> "undefined", v |-> 0]]

\* What a fetch gives: it rejects (network error), answers with a status
\* that is not OK, answers OK with a body res.json() throws at, or answers OK
\* with a parsed body.
Responses ==
  {[kind |-> k, nila |-> [t |-> "undefined", v |-> 0]] : k \in {"reject", "not_ok", "bad_json"}}
    \cup {[kind |-> "ok", nila |-> n] : n \in NilaValues}

\* How a block of statements ends: with a return, with a throw, or by running
\* to its end.
NoResult == [tag |-> "none", v |-> 0]
Returns(v) == [tag |-> "return", v |-> v]
Throws == [tag |-> "throw", v |-> 0]
FallsThrough == [tag |-> "fallthrough", v |-> 0]

\* The body of the inner try: fetch(backendEndpoint), res.ok, res.json(),
\* typeof rate === 'number' && rate > 0.
ProxyBlock(res) ==
  CASE res.kind = "reject" -> Throws
    [] res.kind = "not_ok" -> FallsThrough
    [] res.kind = "bad_json" -> Throws
    [] OTHER ->
         IF res.nila.t = "number" /\ res.nila.v > 0
           THEN Returns(res.nila.v)
           ELSE FallsThrough

\* catch (proxyErr) { console.warn(...) }
InnerCatch(outcome) == IF outcome.tag = "throw" THEN FallsThrough ELSE outcome

\* The CoinGecko part: fetch, res.ok, res.json(), rate = nila or nila.usd or
\* null, rate && rate > 0.
GeckoBlock(res) ==
  CASE res.kind = "reject" -> Throws
    [] res.kind = "not_ok" -> FallsThrough
    [] res.kind = "bad_json" -> Throws
    [] OTHER ->
         LET rate == IF res.nila.t \in {"number", "usd"} THEN res.nila.v ELSE 0
         IN IF rate # 0 /\ rate > 0 THEN Returns(rate) ELSE FallsThrough

\* return FALLBACK_RATE at the end of the outer try.
ReturnFallback(outcome) ==
  IF outcome.tag = "fallthrough" THEN Returns(FALLBACK_RATE) ELSE outcome

\* Mutation of OuterCatch: the error is thrown on to the caller.
OuterRethrow(outcome) == outcome

\* catch (err) { console.error(...); return FALLBACK_RATE }
OuterCatch(outcome) ==
  IF outcome.tag = "throw" THEN Returns(FALLBACK_RATE) ELSE outcome

\* ------------------------------------------------------- the rate endpoints
\* What a handler sent: nothing yet, { nila: r } with status 200,
\* { error: 'Failed to fetch NILA rate' } with status 500, or 'Method not
\* allowed' with status 405.
NoAnswer == [status |-> 0, body |-> "none", nila |-> 0]
JsonNila(r) == [status |-> 200, body |-> "nila", nila |-> r]
JsonError == [status |-> 500, body |-> "error", nila |-> 0]
MethodNotAllowed == [status |-> 405, body |-> "text", nila |-> 0]

\* rate = typeof nila === "number" ? nila : typeof nila?.usd === "number" ?
\* nila.usd : null (null is 0 here: both are falsy).
ExtractRate(nila) == IF nila.t \in {"number", "usd"} THEN nila.v ELSE 0

\* if (!rate || rate <= 0) the fallback, else { nila: rate }.
RateAnswer(nila) ==
  LET rate == ExtractRate(nila)
  IN IF rate = 0 \/ rate <= 0 THEN JsonNila(FALLBACK_RATE) ELSE JsonNila(rate)

\* The catch block around the fetch: the Express router answers 500, the Deno
\* function answers with the fallback.
CatchAnswer(e) == IF e = "express" THEN JsonError ELSE JsonNila(FALLBACK_RATE)

\* --------------------------------------------------------- payment providers
ProviderIds == {"p1", "p2", "p3"}
NoProvider == [exists |-> FALSE, isEnabled |-> FALSE, isDefaultTest |-> FALSE]

\* ------------------------------------------------------ uploadCreditPackImage
\* null of UploadResult.url and UploadResult.error.
Null == "null"

\* file.size > 5 * 1024 * 1024
MaxFileSize == 5 * 1024 * 1024
FileSizes == {1, MaxFileSize, MaxFileSize + 1}

\* Mutation of FileTooLarge: the size is not checked.
FileTooLargeNever(size) == FALSE

FileTooLarge(size) == size > MaxFileSize

AllowedTypes == {"image/jpeg", "image/png", "image/gif", "image/webp"}
FileTypes == AllowedTypes \cup {"application/pdf", ""}

\* getSession: a session, no session, or a rejected promise.
SessionOutcomes == {"session", "no_session", "throws"}

\* storage.upload: the data, an uploadError whose message names
\* 'authenticated', 'storage.objects.insert', 'size' or none of them, or a
\* rejected promise.
UploadErrors == {"error_authenticated", "error_insert", "error_size", "error_other"}
UploadOutcomes == {"ok", "throws"} \cup UploadErrors

\* urlData?.publicUrl: a URL, or nothing.
PublicUrls == {"https://cdn/credit-packs/file", ""}

\* errorMessage for an uploadError.
UploadErrorMessage(outcome) ==
  CASE outcome = "error_authenticated" ->
         "Authentication error. Please try logging out and back in."
    [] outcome = "error_insert" ->
         "Permission denied. You may not have upload permissions."
    [] outcome = "error_size" -> "File too large. Maximum size is 5MB."
    [] OTHER -> "Upload failed"

NoUpload == [session |-> "none", size |-> 0, type |-> "", upload |-> "none", publicUrl |-> ""]
NoUploadResult == [tag |-> "none", url |-> Null, error |-> Null]
UploadResult(url, error) == [tag |-> "return", url |-> url, error |-> error]

InitPage ==
  /\ balance = InitialBalance
  /\ settlements = << >>
  /\ ledger = << >>
  /\ transfers = << >>
  /\ users = [s \in Sessions |-> InitialBalance]
  /\ formData = [s \in Sessions |-> NoForm]
  /\ selectedUser = [s \in Sessions |-> NotFound]
  /\ settlement = [s \in Sessions |-> 0]
  /\ saving = [s \in Sessions |-> FALSE]
  /\ alertMsg = [s \in Sessions |-> "none"]
  /\ pc = [s \in Sessions |-> "idle"]
  /\ calls = 0
  /\ failedStep = [s \in Sessions |-> "none"]
  /\ collidedWith = [s \in Sessions |-> 0]
  /\ exceedsStore = [s \in Sessions |-> FALSE]
  /\ equalsStore = [s \in Sessions |-> FALSE]
  /\ alone = [s \in Sessions |-> FALSE]
  /\ issued = [s \in Sessions |-> << >>]
  /\ racedWith = [s \in Sessions |-> {}]
  /\ balanceBefore = << >>

\* fetchNilaRate has not been called.
RateIdle ==
  /\ backendEndpoint = FALSE
  /\ proxyRes = NoResponse
  /\ geckoRes = NoResponse
  /\ ratePc = "idle"
  /\ rateResult = NoResult

\* No request has reached a rate endpoint.
EndpointsIdle ==
  /\ endpoint = "none"
  /\ reqMethod = "none"
  /\ upstreamRes = NoResponse
  /\ endpointPc = "idle"
  /\ response = NoAnswer

\* The payment providers page is not mounted.
ProvidersIdle ==
  /\ providers = [p \in ProviderIds |-> NoProvider]
  /\ providerPc = [at |-> "unmounted", id |-> "none"]

\* uploadCreditPackImage has not been called.
UploadIdle ==
  /\ uploadInput = NoUpload
  /\ uploadPc = "idle"
  /\ uploadResult = NoUploadResult
  /\ uploadsIssued = 0

\* The settlement page is mounted; nothing else runs.
Init ==
  /\ InitPage
  /\ RateIdle
  /\ EndpointsIdle
  /\ ProvidersIdle
  /\ UploadIdle

\* ---------------------------------------------------------------- actions
\* The page is (re)mounted: fetchUsers loads the profiles into the session.
FetchUsers(s) ==
  /\ UNCHANGED offPageVars
  /\ pc[s] = "idle"
  /\ users[s] # balance
  /\ users' = [users EXCEPT ![s] = balance]
  /\ UNCHANGED << stores, formData, selectedUser, settlement, collidedWith, saving,
                  alertMsg, pc, calls, failedStep, exceedsStore, equalsStore, alone, issued, racedWith,
                  balanceBefore >>

\* handleRecordSettlement is invoked: setSaving(true), then the await of the
\* supabase import.  users and formData are the values of the render the
\* handler was created in.
HandleRecordSettlement(s, userId, creditsUsed) ==
  /\ UNCHANGED offPageVars
  /\ pc[s] = "idle"
  /\ calls < MaxCalls
  /\ calls' = calls + 1
  /\ saving' = [saving EXCEPT ![s] = TRUE]
  /\ formData' = [formData EXCEPT ![s] = [userId |-> userId, creditsUsed |-> creditsUsed]]
  /\ selectedUser' = [selectedUser EXCEPT ![s] = FindUser(users[s], userId)]
  /\ collidedWith' = [collidedWith EXCEPT ![s] = 0]
  /\ settlement' = [settlement EXCEPT ![s] = 0]
  /\ alertMsg' = [alertMsg EXCEPT ![s] = "none"]
  /\ failedStep' = [failedStep EXCEPT ![s] = "none"]
  /\ exceedsStore' = [exceedsStore EXCEPT ![s] = userId \in Users /\ creditsUsed > balance[userId]]
  /\ equalsStore' = [equalsStore EXCEPT ![s] = userId \in Users /\ creditsUsed = balance[userId]]
  /\ alone' = [t \in Sessions |->
                 /\ t = s
                 /\ NoCallInFlight
                 /\ userId \in Users => users[s][userId] = balance[userId]]
  /\ racedWith' = [racedWith EXCEPT ![s] = {}]
  /\ issued' = [issued EXCEPT ![s] = << >>]
  /\ pc' = [pc EXCEPT ![s] = "validating"]
  /\ UNCHANGED << stores, users, balanceBefore >>

\* if (!selectedUser) { alert('Please select a user'); return }
RejectNoUser(s) ==
  /\ UNCHANGED offPageVars
  /\ pc[s] = "validating"
  /\ ~selectedUser[s].found
  /\ Return(s, "select_user", "none")
  /\ UNCHANGED << stores, users, settlement, collidedWith, calls, exceedsStore, equalsStore, alone, issued,
                  racedWith, balanceBefore >>

\* if (creditsUsed > selectedUser.credit_balance) { alert('... insufficient credits ...'); return }
RejectInsufficient(s) ==
  /\ UNCHANGED offPageVars
  /\ pc[s] = "validating"
  /\ selectedUser[s].found
  /\ Insufficient(formData[s].creditsUsed, selectedUser[s].credit_balance)
  /\ Return(s, "insufficient", "none")
  /\ UNCHANGED << stores, users, settlement, collidedWith, calls, exceedsStore, equalsStore, alone, issued,
                  racedWith, balanceBefore >>

\* Validation passed: the settlement id is generated and the settlements row is
\* inserted with status 'processed'; the insert answers with the row or an error.
InsertSettlement(s) ==
  /\ UNCHANGED offPageVars
  /\ pc[s] = "validating"
  /\ issued' = [issued EXCEPT ![s] = Append(@, "settlement")]
  /\ selectedUser[s].found
  /\ ~Insufficient(formData[s].creditsUsed, selectedUser[s].credit_balance)
  /\ \E id \in GenerateSettlementId, ok \in BOOLEAN :
       /\ collidedWith' = [collidedWith EXCEPT ![s] =
                             IF SettlementIdTaken(id) THEN FirstWith(id) ELSE 0]
       /\ IF ok /\ ~SettlementIdTaken(id)
            THEN /\ settlements' = Append(settlements,
                        [id |-> Len(settlements) + 1,
                         settlementId |-> id,
                         userId |-> formData[s].userId,
                         creditsUsed |-> formData[s].creditsUsed,
                         status |-> "processed"])
                 /\ settlement' = [settlement EXCEPT ![s] = Len(settlements) + 1]
                 /\ racedWith' =
                      [t \in Sessions |->
                         IF t = s THEN ValidatedNotWritten(s)
                         ELSE IF t \in ValidatedNotWritten(s)
                                THEN racedWith[t] \cup {s}
                                ELSE racedWith[t]]
                 /\ Continue(s, "ledger")
            ELSE /\ Return(s, "error", "settlement")
                 /\ UNCHANGED << settlements, settlement, racedWith >>
  /\ UNCHANGED << balance, ledger, transfers, users, calls, exceedsStore, equalsStore, alone, balanceBefore >>

\* Mutation of InsertLedger: the insert is an upsert that replaces the rows of
\* the table by the new row.
InsertLedgerReplacing(s) ==
  /\ UNCHANGED offPageVars
  /\ pc[s] = "ledger"
  /\ issued' = [issued EXCEPT ![s] = Append(@, "ledger")]
  /\ ledger' = << [userId |-> formData[s].userId,
                   amount |-> 0 - formData[s].creditsUsed,
                   reference_id |-> settlement[s],
                   balance_after |-> BalanceAfter(selectedUser[s].credit_balance,
                                                  formData[s].creditsUsed)] >>
  /\ balanceBefore' = << balance[formData[s].userId] >>
  /\ Continue(s, "balance")
  /\ UNCHANGED << balance, settlements, transfers, users, settlement, collidedWith,
                  calls, exceedsStore, equalsStore, alone, racedWith >>

\* The credit_ledger row is inserted.
InsertLedger(s) ==
  /\ UNCHANGED offPageVars
  /\ pc[s] = "ledger"
  /\ issued' = [issued EXCEPT ![s] = Append(@, "ledger")]
  /\ \E ok \in BOOLEAN :
       IF ok
         THEN /\ ledger' = Append(ledger,
                     [userId |-> formData[s].userId,
                      amount |-> 0 - formData[s].creditsUsed,
                      reference_id |-> settlement[s],
                      balance_after |-> BalanceAfter(selectedUser[s].credit_balance,
                                                     formData[s].creditsUsed)])
              /\ balanceBefore' = Append(balanceBefore, balance[formData[s].userId])
              /\ Continue(s, "balance")
         ELSE /\ Return(s, "error", "ledger")
              /\ UNCHANGED << ledger, balanceBefore >>
  /\ UNCHANGED << balance, settlements, transfers, users, settlement, collidedWith,
                  calls, exceedsStore, equalsStore, alone, racedWith >>

\* profiles.credit_balance of the user is overwritten.
UpdateBalance(s) ==
  /\ UNCHANGED offPageVars
  /\ pc[s] = "balance"
  /\ issued' = [issued EXCEPT ![s] = Append(@, "balance")]
  /\ \E ok \in BOOLEAN :
       IF ok
         THEN /\ balance' = [balance EXCEPT ![formData[s].userId] =
                     BalanceAfter(selectedUser[s].credit_balance, formData[s].creditsUsed)]
              /\ Continue(s, "transfer")
         ELSE /\ Return(s, "error", "balance")
              /\ UNCHANGED balance
  /\ UNCHANGED << settlements, ledger, transfers, users, settlement, collidedWith,
                  calls, exceedsStore, equalsStore, alone, racedWith, balanceBefore >>

\* Mutation of InsertTransfer: the row carries the settlementId of the payload
\* and not the id of the inserted settlements row.
InsertTransferDangling(s) ==
  /\ UNCHANGED offPageVars
  /\ pc[s] = "transfer"
  /\ issued' = [issued EXCEPT ![s] = Append(@, "transfer")]
  /\ transfers' = Append(transfers,
         [userId |-> formData[s].userId,
          settlementId |-> Len(settlements) + 1,
          status |-> "completed"])
  /\ Continue(s, "refresh")
  /\ UNCHANGED << balance, settlements, ledger, users, settlement, collidedWith,
                  calls, exceedsStore, equalsStore, alone, racedWith, balanceBefore >>

\* The nila_transfers row is inserted.
InsertTransfer(s) ==
  /\ UNCHANGED offPageVars
  /\ pc[s] = "transfer"
  /\ issued' = [issued EXCEPT ![s] = Append(@, "transfer")]
  /\ \E ok \in BOOLEAN :
       IF ok
         THEN /\ transfers' = Append(transfers,
                     [userId |-> formData[s].userId,
                      settlementId |-> settlement[s],
                      status |-> "completed"])
              /\ Continue(s, "refresh")
         ELSE /\ Return(s, "error", "transfer")
              /\ UNCHANGED transfers
  /\ UNCHANGED << balance, settlements, ledger, users, settlement, collidedWith,
                  calls, exceedsStore, equalsStore, alone, racedWith, balanceBefore >>

\* All writes succeeded: the form is reset, fetchSettlements and fetchUsers run
\* (fetchUsers keeps the old list when its query fails), success is reported.
RefreshAfterSuccess(s) ==
  /\ UNCHANGED offPageVars
  /\ pc[s] = "refresh"
  /\ \E ok \in BOOLEAN :
       users' = [users EXCEPT ![s] = IF ok THEN balance ELSE @]
  /\ Return(s, "success", "none")
  /\ UNCHANGED << stores, settlement, collidedWith, calls, exceedsStore, equalsStore, alone, issued, racedWith,
                  balanceBefore >>

Next ==
  \E s \in Sessions :
    \/ FetchUsers(s)
    \/ \E userId \in Users \cup {NoUser}, creditsUsed \in CreditsInputs :
         HandleRecordSettlement(s, userId, creditsUsed)
    \/ RejectNoUser(s)
    \/ RejectInsufficient(s)
    \/ InsertSettlement(s)
    \/ InsertLedger(s)
    \/ UpdateBalance(s)
    \/ InsertTransfer(s)
    \/ RefreshAfterSuccess(s)

Spec == Init /\ [][Next]_vars

\* ------------------------------------------------- requests without answer
\* A step of the running call of session s.
CallStep(s) ==
  \/ RejectNoUser(s)
  \/ RejectInsufficient(s)
  \/ InsertSettlement(s)
  \/ InsertLedger(s)
  \/ UpdateBalance(s)
  \/ InsertTransfer(s)
  \/ RefreshAfterSuccess(s)

\* The store request the call of session s awaits is never answered: the
\* requests carry no timeout and no abort signal, so the await never resumes.
StoreNeverResponds(s) ==
  /\ UNCHANGED offPageVars
  /\ \/ pc[s] \in {"ledger", "balance", "transfer", "refresh"}
     \/ /\ pc[s] = "validating"
        /\ selectedUser[s].found
        /\ ~Insufficient(formData[s].creditsUsed, selectedUser[s].credit_balance)
  /\ pc' = [pc EXCEPT ![s] = "hung"]
  /\ UNCHANGED << stores, users, formData, selectedUser, settlement, saving, alertMsg,
                  calls, failedStep, collidedWith, exceedsStore, racedWith,
                  balanceBefore, equalsStore, alone, issued >>

HangNext ==
  \/ Next
  \/ \E s \in Sessions : StoreNeverResponds(s)

\* The engine with stores that may leave a request unanswered.
SpecHang == Init /\ [][HangNext]_vars

\* ------------------------------------------------- fetchNilaRate, step by step
\* fetchNilaRate is called with some configuration and some pair of answers.
InitRate ==
  /\ InitPage
  /\ backendEndpoint \in BOOLEAN
  /\ proxyRes \in Responses
  /\ geckoRes \in Responses
  /\ ratePc = "proxy"
  /\ rateResult = NoResult
  /\ EndpointsIdle
  /\ ProvidersIdle
  /\ UploadIdle

\* 1. the backend endpoint, if configured.
TryBackendProxy ==
  /\ ratePc = "proxy"
  /\ LET outcome == IF backendEndpoint THEN InnerCatch(ProxyBlock(proxyRes))
                                       ELSE FallsThrough
     IN IF outcome.tag = "fallthrough"
          THEN /\ ratePc' = "gecko"
               /\ UNCHANGED rateResult
          ELSE /\ ratePc' = "done"
               /\ rateResult' = OuterCatch(outcome)
  /\ UNCHANGED << backendEndpoint, proxyRes, geckoRes, pageVars, endpointVars,
                  providerVars, uploadVars >>

\* 2. CoinGecko, then the fallback.
TryCoinGecko ==
  /\ ratePc = "gecko"
  /\ ratePc' = "done"
  /\ rateResult' = OuterCatch(ReturnFallback(GeckoBlock(geckoRes)))
  /\ UNCHANGED << backendEndpoint, proxyRes, geckoRes, pageVars, endpointVars,
                  providerVars, uploadVars >>

RateNext ==
  \/ TryBackendProxy
  \/ TryCoinGecko

SpecRate == InitRate /\ [][RateNext]_vars

\* ------------------------------------------- a request to a rate endpoint
\* A request reaches the Express route GET / or the Deno function.
InitEndpoint ==
  /\ InitPage
  /\ RateIdle
  /\ ProvidersIdle
  /\ UploadIdle
  /\ endpoint \in {"express", "deno"}
  /\ reqMethod \in IF endpoint = "express" THEN {"GET"} ELSE {"GET", "POST"}
  /\ upstreamRes \in Responses
  /\ endpointPc = "request"
  /\ response = NoAnswer

EndpointFrame == UNCHANGED << endpoint, reqMethod, upstreamRes, pageVars, rateVars,
                             providerVars, uploadVars >>

\* Deno: if (req.method !== 'GET') return 405.
RejectMethod ==
  /\ endpointPc = "request"
  /\ endpoint = "deno"
  /\ reqMethod # "GET"
  /\ response' = MethodNotAllowed
  /\ endpointPc' = "done"
  /\ EndpointFrame

\* await fetch(CoinGecko): it resolves, or it rejects into the catch block.
FetchUpstream ==
  /\ endpointPc = "request"
  /\ reqMethod = "GET"
  /\ endpointPc' = IF upstreamRes.kind = "reject" THEN "catch" ELSE "fetched"
  /\ UNCHANGED response
  /\ EndpointFrame

\* !response.ok: the fallback; response.json() throws: the catch block; else
\* the rate or the fallback.
AnswerFromUpstream ==
  /\ endpointPc = "fetched"
  /\ CASE upstreamRes.kind = "not_ok" ->
            /\ response' = JsonNila(FALLBACK_RATE)
            /\ endpointPc' = "done"
       [] upstreamRes.kind = "bad_json" ->
            /\ endpointPc' = "catch"
            /\ UNCHANGED response
       [] OTHER ->
            /\ response' = RateAnswer(upstreamRes.nila)
            /\ endpointPc' = "done"
  /\ EndpointFrame

\* The catch block answers.
AnswerFromCatch ==
  /\ endpointPc = "catch"
  /\ response' = CatchAnswer(endpoint)
  /\ endpointPc' = "done"
  /\ EndpointFrame

EndpointNext ==
  \/ RejectMethod
  \/ FetchUpstream
  \/ AnswerFromUpstream
  \/ AnswerFromCatch

SpecEndpoint == InitEndpoint /\ [][EndpointNext]_vars

\* ------------------------------------------------ the payment providers page
\* The page is mounted on an empty payment_providers table.
InitProviders ==
  /\ InitPage
  /\ RateIdle
  /\ EndpointsIdle
  /\ UploadIdle
  /\ providers = [p \in ProviderIds |-> NoProvider]
  /\ providerPc = [at |-> "idle", id |-> "none"]

ProviderFrame == UNCHANGED << pageVars, rateVars, endpointVars, uploadVars >>

\* handleSubmit without editingProvider: the payload is inserted as a new row;
\* on an error the table stays as it is.
SubmitCreate(isEnabled, isDefaultTest) ==
  /\ providerPc.at = "idle"
  /\ \E p \in ProviderIds, ok \in BOOLEAN :
       /\ ~providers[p].exists
       /\ providers' = IF ok
                         THEN [providers EXCEPT ![p] =
                                 [exists |-> TRUE, isEnabled |-> isEnabled,
                                  isDefaultTest |-> isDefaultTest]]
                         ELSE providers
  /\ UNCHANGED providerPc
  /\ ProviderFrame

\* handleSubmit with editingProvider: the payload overwrites the row.
SubmitEdit(p, isEnabled, isDefaultTest) ==
  /\ providerPc.at = "idle"
  /\ providers[p].exists
  /\ \E ok \in BOOLEAN :
       providers' = IF ok
                      THEN [providers EXCEPT ![p].isEnabled = isEnabled,
                                             ![p].isDefaultTest = isDefaultTest]
                      ELSE providers
  /\ UNCHANGED providerPc
  /\ ProviderFrame

\* toggleProviderStatus(providerId, currentStatus): currentStatus is the value
\* of the rendered row.
ToggleProviderStatus(p, currentStatus) ==
  /\ providerPc.at = "idle"
  /\ providers[p].exists
  /\ \E ok \in BOOLEAN :
       providers' = IF ok THEN [providers EXCEPT ![p].isEnabled = ~currentStatus]
                          ELSE providers
  /\ UNCHANGED providerPc
  /\ ProviderFrame

\* setAsDefaultTest, first update: isDefaultTest: false on all rows; its result
\* is not looked at.
UnsetAllDefaultTest(p) ==
  /\ providerPc.at = "idle"
  /\ providers[p].exists
  /\ \E ok \in BOOLEAN :
       providers' = IF ok
                      THEN [q \in ProviderIds |->
                              [providers[q] EXCEPT !.isDefaultTest = FALSE]]
                      ELSE providers
  /\ providerPc' = [at |-> "set", id |-> p]
  /\ ProviderFrame

\* setAsDefaultTest, second update: isDefaultTest: true on the chosen row, or
\* an error that is alerted.
SetDefaultTest ==
  /\ providerPc.at = "set"
  /\ \E ok \in BOOLEAN :
       providers' = IF ok THEN [providers EXCEPT ![providerPc.id].isDefaultTest = TRUE]
                          ELSE providers
  /\ providerPc' = [at |-> "idle", id |-> "none"]
  /\ ProviderFrame

ProviderNext ==
  \/ \E isEnabled \in BOOLEAN, isDefaultTest \in BOOLEAN :
       SubmitCreate(isEnabled, isDefaultTest)
  \/ \E p \in ProviderIds, isEnabled \in BOOLEAN, isDefaultTest \in BOOLEAN :
       SubmitEdit(p, isEnabled, isDefaultTest)
  \/ \E p \in ProviderIds, currentStatus \in BOOLEAN :
       ToggleProviderStatus(p, currentStatus)
  \/ \E p \in ProviderIds : UnsetAllDefaultTest(p)
  \/ SetDefaultTest

SpecProviders == InitProviders /\ [][ProviderNext]_vars

\* ------------------------------------------------------ uploadCreditPackImage
\* uploadCreditPackImage(file) is called.
InitUpload ==
  /\ InitPage
  /\ RateIdle
  /\ EndpointsIdle
  /\ ProvidersIdle
  /\ uploadInput \in [session : SessionOutcomes, size : FileSizes, type : FileTypes,
                      upload : UploadOutcomes, publicUrl : PublicUrls]
  /\ uploadPc = "session"
  /\ uploadResult = NoUploadResult
  /\ uploadsIssued = 0

UploadFrame == UNCHANGED << uploadInput, pageVars, rateVars, endpointVars, providerVars >>

\* await supabase.auth.getSession(); if (!session) return the error.
GetSession ==
  /\ uploadPc = "session"
  /\ CASE uploadInput.session = "throws" ->
            /\ uploadPc' = "catch"
            /\ UNCHANGED uploadResult
       [] uploadInput.session = "no_session" ->
            /\ uploadPc' = "done"
            /\ uploadResult' = UploadResult(Null, "User not authenticated. Please log in.")
       [] OTHER ->
            /\ uploadPc' = "validate"
            /\ UNCHANGED uploadResult
  /\ UNCHANGED uploadsIssued
  /\ UploadFrame

\* The size check, then the type check.
ValidateFile ==
  /\ uploadPc = "validate"
  /\ IF FileTooLarge(uploadInput.size)
       THEN /\ uploadPc' = "done"
            /\ uploadResult' = UploadResult(Null, "File size exceeds 5MB limit.")
       ELSE IF uploadInput.type \notin AllowedTypes
         THEN /\ uploadPc' = "done"
              /\ uploadResult' = UploadResult(Null,
                   "Invalid file type. Only JPG, PNG, GIF, and WebP are allowed.")
         ELSE /\ uploadPc' = "upload"
              /\ UNCHANGED uploadResult
  /\ UNCHANGED uploadsIssued
  /\ UploadFrame

\* await supabase.storage.from(bucket).upload(path, file, ...)
StorageUpload ==
  /\ uploadPc = "upload"
  /\ uploadsIssued' = uploadsIssued + 1
  /\ CASE uploadInput.upload = "throws" ->
            /\ uploadPc' = "catch"
            /\ UNCHANGED uploadResult
       [] uploadInput.upload \in UploadErrors ->
            /\ uploadPc' = "done"
            /\ uploadResult' = UploadResult(Null, UploadErrorMessage(uploadInput.upload))
       [] OTHER ->
            /\ uploadPc' = "url"
            /\ UNCHANGED uploadResult
  /\ UploadFrame

\* getPublicUrl(path); if (!urlData?.publicUrl) return the error.
GetPublicUrl ==
  /\ uploadPc = "url"
  /\ uploadPc' = "done"
  /\ uploadResult' = IF uploadInput.publicUrl = ""
                       THEN UploadResult(Null,
                              "Failed to generate public URL for uploaded image.")
                       ELSE UploadResult(uploadInput.publicUrl, Null)
  /\ UNCHANGED uploadsIssued
  /\ UploadFrame

\* catch (err) { return { url: null, error: 'An unexpected error occurred...' } }
UploadCatch ==
  /\ uploadPc = "catch"
  /\ uploadPc' = "done"
  /\ uploadResult' = UploadResult(Null, "An unexpected error occurred. Please try again.")
  /\ UNCHANGED uploadsIssued
  /\ UploadFrame

UploadNext ==
  \/ GetSession
  \/ ValidateFile
  \/ StorageUpload
  \/ GetPublicUrl
  \/ UploadCatch

SpecUpload == InitUpload /\ [][UploadNext]_vars

\* ------------------------------------------------------ derived relations
\* The call of session s has returned to its caller.
Returned(s) == pc[s] = "idle" /\ alertMsg[s] # "none"

\* Ledger rows and transfer rows that reference the settlements row id.
LedgerFor(id) == { i \in 1..Len(ledger) : ledger[i].reference_id = id }
TransfersFor(id) == { i \in 1..Len(transfers) : transfers[i].settlementId = id }

\* Ledger rows and transfer rows of all settlements rows that hold settlementId sid.
RowsWith(sid) == { r \in 1..Len(settlements) : settlements[r].settlementId = sid }
LedgerForSettlementId(sid) ==
  { i \in 1..Len(ledger) : ledger[i].reference_id \in RowsWith(sid) }
TransfersForSettlementId(sid) ==
  { i \in 1..Len(transfers) : transfers[i].settlementId \in RowsWith(sid) }

\* Sum of creditsUsed over the first n settlements rows that are of user u and processed.
RECURSIVE ProcessedCredits(_, _)
ProcessedCredits(u, n) ==
  IF n = 0 THEN 0
  ELSE ProcessedCredits(u, n - 1) +
       (IF settlements[n].userId = u /\ settlements[n].status = "processed"
          THEN settlements[n].creditsUsed ELSE 0)

\* balance_after of the last ledger row of user u before row i, or the initial
\* balance when row i is the user's first.
PreviousBalanceAfter(u, i) ==
  LET before == { j \in 1..(i - 1) : ledger[j].userId = u }
  IN IF before = {} THEN InitialBalance[u]
     ELSE ledger[CHOOSE j \in before : \A k \in before : k <= j].balance_after

\* The ledger rows that debit credits for settlements row id.
DebitsFor(id) == { i \in LedgerFor(id) : ledger[i].amount < 0 }

\* A ledger row gives the credits of settlements row id back.
Compensated(id) == \E i \in LedgerFor(id) : ledger[i].amount > 0

\* ----------------------------------------------------------------- claims
\* C1: in every reachable state, whatever the interleaving of calls and
\* whichever store writes fail, every user's stored credit_balance is >= 0.
C1_BalanceNonNegative == \A u \in Users : balance[u] >= 0

\* C1 witness: two calls for one user that raced (both validated before either
\* wrote the balance, asking together for more than was stored) have both
\* written the balance and returned.
C1_RacedCallsBothWrote ==
  \E s \in Sessions : \E t \in racedWith[s] :
    /\ Returned(s) /\ Returned(t)
    /\ alertMsg[s] = "success" /\ alertMsg[t] = "success"

\* C2: when two calls for the same user both validate before either writes the
\* balance and together ask for more than the balance, and no store write
\* fails, exactly one of them succeeds.
C2_ExactlyOneRacerSucceeds ==
  \A s \in Sessions : \A t \in racedWith[s] :
    ( /\ s \in racedWith[t]
      /\ Returned(s) /\ Returned(t)
      /\ failedStep[s] = "none" /\ failedStep[t] = "none" )
    => ((alertMsg[s] = "success") # (alertMsg[t] = "success"))

\* C3: in every reachable state every settlements row with status processed is
\* referenced by exactly one ledger row and exactly one transfer row.
C3_ProcessedHasOneLedgerOneTransfer ==
  \A r \in 1..Len(settlements) :
    settlements[r].status = "processed"
      => /\ Cardinality(LedgerFor(r)) = 1
         /\ Cardinality(TransfersFor(r)) = 1

\* C4: whenever no call is in flight, every user's stored balance is the
\* initial balance minus the creditsUsed of the user's processed settlements.
C4_BalanceIsInitialMinusProcessed ==
  NoCallInFlight =>
    \A u \in Users :
      balance[u] = InitialBalance[u] - ProcessedCredits(u, Len(settlements))

\* C5: per user the ledger rows form a chain: balance_after of a debit row
\* (negative amount) is balance_after of the user's previous row (the initial
\* balance for the first row) plus the row's amount.
C5_LedgerChain ==
  \A i \in 1..Len(ledger) :
    ledger[i].amount < 0 =>
      ledger[i].balance_after =
        PreviousBalanceAfter(ledger[i].userId, i) + ledger[i].amount

\* C6: every ledger row of a settlement with creditsUsed > 0 has
\* amount = -creditsUsed, and a balance_after that is >= 0 and is the Balance
\* Store value just before the row was written minus creditsUsed.
C6_LedgerRowFromStoreBalance ==
  \A i \in 1..Len(ledger) :
    LET c == settlements[ledger[i].reference_id].creditsUsed
    IN c > 0 =>
         /\ ledger[i].amount = 0 - c
         /\ ledger[i].balance_after >= 0
         /\ ledger[i].balance_after = balanceBefore[i] - c

\* C7: once a second call has been made with a settlementId already used and
\* no call is in flight, that settlementId has exactly one ledger row and
\* exactly one transfer row.
C7_SameSettlementIdOneDebit ==
  NoCallInFlight =>
    \A s \in Sessions :
      collidedWith[s] # 0 =>
        LET sid == settlements[collidedWith[s]].settlementId
        IN /\ Cardinality(LedgerForSettlementId(sid)) = 1
           /\ Cardinality(TransfersForSettlementId(sid)) = 1

\* C8: a call whose creditsUsed exceeds the Balance Store value of its user at
\* the time of the call never writes a settlements row (hence no ledger row,
\* balance or transfer either), and what it reports on return, unless a store
\* request failed, is insufficient credits.
C8_OverStoreBalanceRejected ==
  \A s \in Sessions :
    exceedsStore[s] =>
      /\ settlement[s] = 0
      /\ (Returned(s) /\ failedStep[s] = "none") => alertMsg[s] = "insufficient"

\* C9: when a call returns after its ledger insert, balance update or transfer
\* insert failed, its settlements row has status failed.
C9_FailedCallMarksSettlementFailed ==
  \A s \in Sessions :
    (Returned(s) /\ failedStep[s] \in {"ledger", "balance", "transfer"})
      => settlements[settlement[s]].status = "failed"

\* C10: no call returns leaving a ledger debit for its settlement and no
\* transfer for it, unless the debit was compensated or the settlement is
\* marked failed.
C10_NoDebitWithoutTransfer ==
  \A s \in Sessions :
    ( /\ Returned(s)
      /\ settlement[s] # 0
      /\ DebitsFor(settlement[s]) # {}
      /\ TransfersFor(settlement[s]) = {} )
    => \/ settlements[settlement[s]].status = "failed"
       \/ Compensated(settlement[s])

\* C11: a call made alone (no other call in flight, the loaded balance B of the
\* user current) with 0 < creditsUsed = c <= B passes validation and, when no
\* store request fails, returns success with its settlement processed, one
\* ledger row with amount = -c and balance_after = B - c, the stored balance
\* B - c and one transfer with status completed.
C11_SingleCallRecordsAll ==
  \A s \in Sessions :
    /\ ( /\ pc[s] = "validating" /\ alone[s]
         /\ formData[s].userId \in Users
         /\ formData[s].creditsUsed > 0
         /\ ~exceedsStore[s] )
       => /\ selectedUser[s].found
          /\ ~Insufficient(formData[s].creditsUsed, selectedUser[s].credit_balance)
    /\ ( /\ Returned(s) /\ alone[s]
         /\ failedStep[s] = "none"
         /\ settlement[s] # 0
         /\ settlements[settlement[s]].creditsUsed > 0 )
       => LET r == settlement[s]
              c == settlements[r].creditsUsed
              u == settlements[r].userId
          IN /\ alertMsg[s] = "success"
             /\ settlements[r].status = "processed"
             /\ Cardinality(LedgerFor(r)) = 1
             /\ \A i \in LedgerFor(r) :
                  /\ ledger[i].userId = u
                  /\ ledger[i].amount = 0 - c
                  /\ ledger[i].balance_after = balanceBefore[i] - c
                  /\ balance[u] = balanceBefore[i] - c
             /\ Cardinality(TransfersFor(r)) = 1
             /\ \A j \in TransfersFor(r) : transfers[j].status = "completed"

\* C11 witness: balance 500, creditsUsed 200, call made alone, returned
\* success; the stored balance is 300.
C11_ScenarioA ==
  \E s \in Sessions :
    /\ Returned(s) /\ alone[s] /\ alertMsg[s] = "success"
    /\ settlements[settlement[s]].userId = "u1"
    /\ settlements[settlement[s]].creditsUsed = 200
    /\ \E i \in LedgerFor(settlement[s]) : balanceBefore[i] = 500
    /\ balance["u1"] = 300

\* C12: a call made alone whose creditsUsed equals the stored balance of its
\* user passes validation and, when no store request fails, returns success
\* with its settlement processed, its ledger row's balance_after = 0 and the
\* stored balance 0.
C12_WholeBalanceAccepted ==
  \A s \in Sessions :
    /\ (pc[s] = "validating" /\ alone[s] /\ equalsStore[s])
       => /\ selectedUser[s].found
          /\ ~Insufficient(formData[s].creditsUsed, selectedUser[s].credit_balance)
    /\ (Returned(s) /\ alone[s] /\ equalsStore[s] /\ failedStep[s] = "none")
       => /\ alertMsg[s] = "success"
          /\ settlement[s] # 0
          /\ settlements[settlement[s]].status = "processed"
          /\ LedgerFor(settlement[s]) # {}
          /\ \A i \in LedgerFor(settlement[s]) : ledger[i].balance_after = 0
          /\ balance[settlements[settlement[s]].userId] = 0

\* C12 witness: balance 200, creditsUsed 200, call made alone, returned
\* success; the stored balance is 0.
C12_ScenarioD ==
  \E s \in Sessions :
    /\ Returned(s) /\ alone[s] /\ equalsStore[s] /\ alertMsg[s] = "success"
    /\ settlements[settlement[s]].creditsUsed = 200
    /\ balance[settlements[settlement[s]].userId] = 0

C14_NoStaleBalanceWrite ==
  [][ \A s \in Sessions :
        (pc[s] = "balance" /\ pc'[s] = "transfer")
          => balance[formData[s].userId] = selectedUser[s].credit_balance ]_vars

\* C15: no two settlements rows share a settlementId, and a call that generated
\* the settlementId of a stored row has failed at the settlements insert,
\* reported the error and issued no other write.
C15_UniqueSettlementId ==
  /\ \A i, j \in 1..Len(settlements) :
       i # j => settlements[i].settlementId # settlements[j].settlementId
  /\ \A s \in Sessions :
       collidedWith[s] # 0 =>
         /\ pc[s] = "idle"
         /\ alertMsg[s] = "error"
         /\ settlement[s] = 0
         /\ issued[s] = << "settlement" >>

\* C15 witness: a call that generated a stored settlementId has returned.
C15_CollisionRejected ==
  \E s \in Sessions : Returned(s) /\ collidedWith[s] # 0

\* C16: once a store write of a call has failed, that write is the last one the
\* call issues, and the call has returned.
C16_NoWriteAfterFailure ==
  \A s \in Sessions :
    failedStep[s] # "none" =>
      /\ pc[s] = "idle"
      /\ issued[s] # << >>
      /\ issued[s][Len(issued[s])] = failedStep[s]
      /\ failedStep[s] = "settlement" => settlement[s] = 0
      /\ failedStep[s] \in {"settlement", "ledger"} =>
           \A i \in 1..Len(ledger) : ledger[i].reference_id # settlement[s]
      /\ \A j \in 1..Len(transfers) : transfers[j].settlementId # settlement[s]

\* C16 witness: a call whose ledger insert failed after its settlements row
\* was stored has returned.
C16_LedgerInsertFailed ==
  \E s \in Sessions :
    Returned(s) /\ failedStep[s] = "ledger" /\ settlement[s] # 0

\* C17: what a call reports when its settlements insert failed (nothing
\* written) differs from what a call reports when its ledger insert, balance
\* update or transfer insert failed (a settlements row exists).
C17_PartialFailureDistinguishable ==
  \A s, t \in Sessions :
    ( /\ Returned(s) /\ Returned(t)
      /\ failedStep[s] = "settlement"
      /\ failedStep[t] \in {"ledger", "balance", "transfer"} )
    => alertMsg[s] # alertMsg[t]

\* C18: a call in flight can always take a step towards reporting to its
\* caller, also when the store request it awaits is never answered.
C18_CallCanAlwaysReport ==
  \A s \in Sessions : pc[s] # "idle" => ENABLED CallStep(s)

\* C20: within a call the writes are issued in the order settlement, ledger,
\* balance, transfer; ledger rows and transfers reference stored settlements
\* rows, and a transfer's settlement has its ledger row.
WriteOrder == << "settlement", "ledger", "balance", "transfer" >>

C20_WritesInFixedOrder ==
  /\ \A s \in Sessions :
       /\ Len(issued[s]) <= Len(WriteOrder)
       /\ \A k \in 1..Len(issued[s]) : issued[s][k] = WriteOrder[k]
       /\ pc[s] \in {"ledger", "balance", "transfer", "refresh"} =>
            settlement[s] \in 1..Len(settlements)
       /\ pc[s] \in {"balance", "transfer", "refresh"} =>
            LedgerFor(settlement[s]) # {}
  /\ \A i \in 1..Len(ledger) : ledger[i].reference_id \in 1..Len(settlements)
  /\ \A j \in 1..Len(transfers) :
       /\ transfers[j].settlementId \in 1..Len(settlements)
       /\ LedgerFor(transfers[j].settlementId) # {}

\* C20 witness: a call has issued all four writes.
C20_AllFourIssued ==
  \E s \in Sessions : issued[s] = WriteOrder /\ alertMsg[s] = "success"

\* C19: fetchNilaRate never throws and gives back a number > 0: the rate of
\* the backend proxy if the proxy is configured and answers OK with a number
\* > 0, else the rate of CoinGecko if it answers OK with a number > 0 (as nila
\* or as nila.usd), else the fallback 0.01234.
ProxyValid ==
  /\ backendEndpoint
  /\ proxyRes.kind = "ok"
  /\ proxyRes.nila.t = "number"
  /\ proxyRes.nila.v > 0

GeckoValid ==
  /\ geckoRes.kind = "ok"
  /\ geckoRes.nila.t \in {"number", "usd"}
  /\ geckoRes.nila.v > 0

C19_RateFirstValidElseFallback ==
  /\ ratePc \in {"proxy", "gecko"} => rateResult = NoResult
  /\ ratePc = "done" =>
       /\ rateResult.tag = "return"
       /\ rateResult.v > 0
       /\ rateResult.v = IF ProxyValid THEN proxyRes.nila.v
                         ELSE IF GeckoValid THEN geckoRes.nila.v
                         ELSE FALLBACK_RATE

\* C19 witness: the proxy is configured and its fetch rejects, CoinGecko
\* answers { nila: { usd: 0.03 } }, and the call gave back 0.03.
C19_ProxyDownGeckoUsd ==
  /\ ratePc = "done"
  /\ backendEndpoint
  /\ proxyRes.kind = "reject"
  /\ geckoRes = [kind |-> "ok", nila |-> [t |-> "usd", v |-> 3000]]
  /\ rateResult = Returns(3000)

\* C21: a settlements row is created with status pending, its status changes
\* only from pending to processed or failed, and a row is never removed.
C21_StatusStateMachine ==
  [][ /\ Len(settlements') >= Len(settlements)
      /\ \A r \in 1..Len(settlements') :
           IF r > Len(settlements)
             THEN settlements'[r].status = "pending"
             ELSE \/ settlements'[r].status = settlements[r].status
                  \/ /\ settlements[r].status = "pending"
                     /\ settlements'[r].status \in {"processed", "failed"} ]_vars

\* C23: a call whose userId matches no known user takes one step only, the
\* rejection 'Please select a user', and that step leaves every store as it is;
\* a call rejected this way has issued no write.
C23_UnknownUserRejected ==
  /\ [](\A s \in Sessions :
          /\ (pc[s] = "validating" /\ formData[s].userId \notin Users) =>
               ~selectedUser[s].found /\ issued[s] = << >>
          /\ alertMsg[s] = "select_user" =>
               pc[s] = "idle" /\ issued[s] = << >> /\ settlement[s] = 0)
  /\ [][ \A s \in Sessions :
           ( /\ pc[s] = "validating"
             /\ formData[s].userId \notin Users
             /\ pc'[s] # "validating" )
           => /\ stores' = stores
              /\ pc'[s] = "idle"
              /\ alertMsg'[s] = "select_user" ]_vars

\* C23 witness: a call without a known user was rejected while the other
\* session's call has written its settlement.
C23_RejectedWithNoWrite ==
  \E s \in Sessions :
    /\ Returned(s)
    /\ alertMsg[s] = "select_user"
    /\ Len(settlements) = 1

\* C24: the ledger only grows at its end: every row stays where it is and as
\* it is.
C24_LedgerAppendOnly ==
  [][ /\ Len(ledger') >= Len(ledger)
      /\ \A i \in 1..Len(ledger) : ledger'[i] = ledger[i] ]_vars

\* C24 witness: the ledger holds a row and a later call has failed at its own
\* ledger insert.
C24_RowKeptAfterFailedCall ==
  \E s \in Sessions :
    /\ Len(ledger) = 1
    /\ Returned(s)
    /\ failedStep[s] = "ledger"
    /\ settlement[s] # ledger[1].reference_id

\* C25: a balance write of a call that debits creditsUsed > 0 never raises the
\* stored balance of a user.
C25_BalanceNeverIncreases ==
  [][ \A s \in Sessions :
        ( /\ pc[s] = "balance" /\ pc'[s] = "transfer"
          /\ formData[s].creditsUsed > 0 )
        => \A u \in Users : balance'[u] <= balance[u] ]_vars

\* C26: every ledger row and every transfer references a stored settlements
\* row and carries its userId; the rows a call in flight has written reference
\* the call's own settlements row.
C26_RowsReferenceOwnSettlement ==
  /\ \A i \in 1..Len(ledger) :
       /\ ledger[i].reference_id \in 1..Len(settlements)
       /\ ledger[i].userId = settlements[ledger[i].reference_id].userId
  /\ \A j \in 1..Len(transfers) :
       /\ transfers[j].settlementId \in 1..Len(settlements)
       /\ transfers[j].userId = settlements[transfers[j].settlementId].userId
  /\ \A s \in Sessions :
       /\ pc[s] \in {"ledger", "balance", "transfer", "refresh"} =>
            /\ settlement[s] \in 1..Len(settlements)
            /\ settlements[settlement[s]].userId = formData[s].userId
       /\ pc[s] \in {"balance", "transfer", "refresh"} =>
            /\ LedgerFor(settlement[s]) # {}
            /\ \A i \in LedgerFor(settlement[s]) : ledger[i].userId = formData[s].userId
       /\ pc[s] = "refresh" => TransfersFor(settlement[s]) # {}

\* C26 witness: two calls for two users have each written a ledger row and a
\* transfer.
C26_TwoUsersRecorded ==
  /\ Len(transfers) = 2
  /\ Len(ledger) = 2
  /\ transfers[1].userId # transfers[2].userId

\* C27: saving is true while the handler runs and false after each of its
\* exits.
C27_SavingResetOnEveryExit ==
  \A s \in Sessions :
    /\ pc[s] = "idle" => ~saving[s]
    /\ pc[s] # "idle" => saving[s]

\* C27 witness: a call whose transfer insert failed has returned.
C27_ExitAfterFailedTransfer ==
  \E s \in Sessions :
    Returned(s) /\ failedStep[s] = "transfer" /\ ~saving[s]

\* C22: a rate endpoint answers every GET request with status 200 and a body
\* { nila: r } with r > 0: the rate of CoinGecko if it answers OK with a rate
\* > 0, else the fallback 0.01234.
UpstreamValid ==
  /\ upstreamRes.kind = "ok"
  /\ upstreamRes.nila.t \in {"number", "usd"}
  /\ upstreamRes.nila.v > 0

C22_EndpointsAnswer200 ==
  (endpointPc = "done" /\ reqMethod = "GET") =>
    /\ response.status = 200
    /\ response.body = "nila"
    /\ response.nila > 0
    /\ response.nila = IF UpstreamValid THEN upstreamRes.nila.v ELSE FALLBACK_RATE

\* C28: at most one payment provider has isDefaultTest = true.
DefaultTestProviders ==
  { p \in ProviderIds : providers[p].exists /\ providers[p].isDefaultTest }

C28_AtMostOneDefaultTest == Cardinality(DefaultTestProviders) <= 1

\* C29: uploadCreditPackImage always ends with a result, never with a throw;
\* exactly one of url and error of the result is non-null; without a session,
\* with a file of more than 5 MB or with a type other than JPEG, PNG, GIF and
\* WebP the result is an error and no storage upload was issued.
UploadRefused ==
  \/ uploadInput.session # "session"
  \/ uploadInput.size > 5242880
  \/ uploadInput.type \notin {"image/jpeg", "image/png", "image/gif", "image/webp"}

C29_UploadResultWellFormed ==
  /\ uploadPc \in {"session", "validate", "upload", "url", "catch", "done"}
  /\ ENABLED UploadNext \/ uploadPc = "done"
  /\ uploadPc # "done" => uploadResult = NoUploadResult
  /\ uploadPc = "done" =>
       /\ uploadResult.tag = "return"
       /\ (uploadResult.url = Null) # (uploadResult.error = Null)
       /\ UploadRefused => uploadResult.error # Null
  /\ UploadRefused => uploadsIssued = 0
  /\ uploadsIssued <= 1

\* C29 witness: a file of 5 MB + 1 byte with a session was refused without an
\* upload.
C29_OversizeRefused ==
  /\ uploadPc = "done"
  /\ uploadInput.session = "session"
  /\ uploadInput.size = 5242881
  /\ uploadInput.type = "image/png"
  /\ uploadResult = UploadResult(Null, "File size exceeds 5MB limit.")
  /\ uploadsIssued = 0

====
